---- MODULE Spec2Model ----
(***************************************************************************)
(* Model of github.com/sbinet/pstree: New() builds the process tree from   *)
(* the per-process records of procfs;  scan() parses one record;  the      *)
(* procs-tree command walks the tree with display().                       *)
(*                                                                         *)
(* Text is modelled as it is in the program: a string is a sequence of     *)
(* one-character strings, and FieldsFunc, TrimSpace, Atoi and Sscanf work  *)
(* on the characters.                                                      *)
(***************************************************************************)
EXTENDS Integers, Sequences, FiniteSets, TLC

\* Process identifiers of the modelled procfs are 1..MaxPid.
MaxPid == 3

\* display() is followed down to this recursion depth.
MaxDepth == 5

Dirs == 1..MaxPid

(***************************************************************************)
(* Characters and numbers                                                  *)
(***************************************************************************)

DigitChars == <<"0", "1", "2", "3", "4", "5", "6", "7", "8", "9">>

IsDigit(c) == c \in {"0", "1", "2", "3", "4", "5", "6", "7", "8", "9"}

DigitVal(c) == (CHOOSE v \in 1..10 : DigitChars[v] = c) - 1

\* unicode.IsSpace, on the characters the records hold.
IsSpace(c) == c \in {" ", "\t", "\n", "\r"}

\* The separator function handed to strings.FieldsFunc by scan.
IsParen(c) == c = "(" \/ c = ")"

RECURSIVE FormatUint(_)
FormatUint(n) ==
    IF n < 10 THEN <<DigitChars[n + 1]>>
    ELSE FormatUint(n \div 10) \o <<DigitChars[(n % 10) + 1]>>

\* The decimal text of an integer, as the kernel writes it into a record.
FormatInt(n) == IF n < 0 THEN <<"-">> \o FormatUint(0 - n) ELSE FormatUint(n)

\* The least and the greatest element of a non-empty set of integers.
Min(S) == CHOOSE x \in S : \A y \in S : x <= y

Max(S) == CHOOSE x \in S : \A y \in S : y <= x

\* The fields lo..hi of toks, separated by single spaces.
RECURSIVE JoinRange(_, _, _)
JoinRange(toks, lo, hi) ==
    IF lo > hi THEN <<>>
    ELSE IF lo = hi THEN toks[lo]
    ELSE LET mid == (lo + hi) \div 2
         IN  JoinRange(toks, lo, mid) \o <<" ">> \o JoinRange(toks, mid + 1, hi)

\* The fields of a record, separated by single spaces.
JoinFields(toks) == JoinRange(toks, 1, Len(toks))

(***************************************************************************)
(* strings.FieldsFunc, strings.TrimSpace, strconv.Atoi                     *)
(***************************************************************************)

\* strings.FieldsFunc(s, IsParen): the maximal runs of characters that are no
\* separators, in order; a run of separators yields no empty field.
FieldsFunc(s) ==
    LET n == Len(s)
        starts == {i \in 1..n : ~IsParen(s[i]) /\ (i = 1 \/ IsParen(s[i - 1]))}
        endOf(i) == Min({j \in i..n : j = n \/ IsParen(s[j + 1])})
        kth(k) == CHOOSE i \in starts : Cardinality({j \in starts : j < i}) = k - 1
    IN  [k \in 1..Cardinality(starts) |-> SubSeq(s, kth(k), endOf(kth(k)))]

\* strings.TrimSpace: s without its leading and trailing white space.
TrimSpace(s) ==
    LET keep == {i \in 1..Len(s) : ~IsSpace(s[i])}
    IN  IF keep = {} THEN <<>> ELSE SubSeq(s, Min(keep), Max(keep))

RECURSIVE ParseDigits(_, _)
ParseDigits(s, acc) ==
    IF s = <<>> THEN acc
    ELSE ParseDigits(Tail(s), acc * 10 + DigitVal(Head(s)))

\* strconv.Atoi: an optional sign, then digits only; 0 and an error otherwise.
Atoi(s) ==
    LET signed == s # <<>> /\ s[1] \in {"+", "-"}
        body   == IF signed THEN Tail(s) ELSE s
        isNum  == body # <<>> /\ \A k \in 1..Len(body) : IsDigit(body[k])
        mag    == ParseDigits(body, 0)
    IN  IF isNum
        THEN [ok |-> TRUE, val |-> IF signed /\ s[1] = "-" THEN 0 - mag ELSE mag]
        ELSE [ok |-> FALSE, val |-> 0]

(***************************************************************************)
(* fmt.Sscanf(info[2], statfmt, &proc.Stat.State, ..., &proc.Stat.RSS)     *)
(***************************************************************************)

\* The fields statfmt fills, in order.
StatFields ==
    <<"State", "Ppid", "Pgrp", "Session", "TTY", "Tpgid", "Flags",
      "Minflt", "Cminflt", "Majflt", "Cmajflt", "Utime", "Stime",
      "Cutime", "Cstime", "Priority", "Nice", "Nthreads", "Itrealval",
      "Starttime", "Vsize", "RSS">>

\* The verb of each field with the signedness of its operand: "c" is %c into
\* a byte, "d" is %d into int/int64, "u" is %d into uint32/uint64.
statfmt ==
    <<"c", "d", "d", "d", "d", "d", "u",
      "u", "u", "u", "u", "u", "u",
      "d", "d", "d", "d", "d", "d",
      "d", "u", "d">>

\* The space that a space of the format matches (a newline does not).
IsBlank(c) == c \in {" ", "\t", "\r"}

RECURSIVE SkipSpace(_, _)
SkipSpace(s, pos) ==
    IF pos <= Len(s) /\ IsBlank(s[pos]) THEN SkipSpace(s, pos + 1) ELSE pos

RECURSIVE DigitsEnd(_, _)
DigitsEnd(s, pos) ==
    IF pos <= Len(s) /\ IsDigit(s[pos]) THEN DigitsEnd(s, pos + 1) ELSE pos

\* doScanf from the verb after the operands vals, at position pos of s:
\* whether Sscanf returns no error, and the operands it has stored.
\* %c takes the next character as it is.  The space of the format before a
\* %d has to meet a space or the end of the input; then %d skips spaces, takes
\* a sign when the operand is signed (verb "d"), needs at least one digit and
\* stops at the first character that is no digit.  No more input is an error.
\* Nothing is asked of the input that is left when the verbs are used up.
RECURSIVE doScanf(_, _, _)
doScanf(s, pos, vals) ==
    IF Len(vals) = Len(statfmt) THEN [ok |-> TRUE, vals |-> vals]
    ELSE IF statfmt[Len(vals) + 1] = "c"
    THEN IF pos > Len(s) THEN [ok |-> FALSE, vals |-> vals]
         ELSE doScanf(s, pos + 1, Append(vals, s[pos]))
    ELSE
        LET spaceOK == pos > Len(s) \/ IsBlank(s[pos])
            p1 == SkipSpace(s, pos)
            hasSign == /\ statfmt[Len(vals) + 1] = "d"
                       /\ p1 <= Len(s)
                       /\ s[p1] \in {"+", "-"}
            p2 == IF hasSign THEN p1 + 1 ELSE p1
            p3 == DigitsEnd(s, p2)
            mag == ParseDigits(SubSeq(s, p2, p3 - 1), 0)
            val == IF hasSign /\ s[p1] = "-" THEN 0 - mag ELSE mag
        IN  IF ~spaceOK \/ p1 > Len(s) \/ p3 = p2
            THEN [ok |-> FALSE, vals |-> vals]
            ELSE doScanf(s, p3, Append(vals, val))

\* fmt.Sscanf(s, statfmt, ...)
Sscanf(s) == doScanf(s, 1, <<>>)

(***************************************************************************)
(* State                                                                   *)
(***************************************************************************)

VARIABLES
    procfs,   \* the backing state: per listed /proc/<pid>, its files
    scans,    \* New: per entry of files, what scan returns for it
    pc,       \* where main is: start, scan, link, sort, returned, display, exit
    run,      \* 1 for the first call of New, 2 for the second
    files,    \* New: the entries of the result of filepath.Glob that the
              \* scan loop has still to visit
    procs,    \* New: the map pid -> Process
    todo,     \* New: the keys a range loop over procs has still to visit
    last,     \* New: dir, proc and err of the latest call of scan
    tree,     \* what New returned: the *Tree
    err,      \* what New returned: the error
    first,    \* what the first call of New returned
    stack     \* display: the frames of the recursion, innermost last

vars == <<procfs, scans, pc, run, files, procs, todo, last, tree, err, first, stack>>

(***************************************************************************)
(* Types: Process, ProcessStat, Tree, errors                               *)
(***************************************************************************)

\* The zero ProcessStat.
ProcessStat ==
    [PID |-> 0, Comm |-> <<>>, State |-> "", Ppid |-> 0, Pgrp |-> 0,
     Session |-> 0, TTY |-> 0, Tpgid |-> 0, Flags |-> 0, Minflt |-> 0,
     Cminflt |-> 0, Majflt |-> 0, Cmajflt |-> 0, Utime |-> 0, Stime |-> 0,
     Cutime |-> 0, Cstime |-> 0, Priority |-> 0, Nice |-> 0, Nthreads |-> 0,
     Itrealval |-> 0, Starttime |-> 0, Vsize |-> 0, RSS |-> 0,
     Environ |-> <<>>, Cwd |-> <<>>, Cmdline |-> <<>>]

\* The zero Process, Process{}.
Process == [Name |-> <<>>, Stat |-> ProcessStat, Children |-> <<>>]

\* A nil *Tree and a Tree over a map.
NilTree == [nil |-> TRUE, Procs |-> <<>>]

Tree(m) == [nil |-> FALSE, Procs |-> m]

NoPath == <<0, "">>

\* The errors of scan: what failed, the path the message names, and the
\* wrapped error of the operating system ("" when there is none).
NoScanErr == [what |-> "nil", path |-> NoPath, os |-> ""]

ScanErr(what, path, os) == [what |-> what, path |-> path, os |-> os]

\* The errors of New: kind is nil, glob, scan or missingparent.
NoErr == [kind |-> "nil", dir |-> 0, cause |-> NoScanErr, ppid |-> 0, pid |-> 0]

GlobErr == [kind |-> "glob", dir |-> 0, cause |-> NoScanErr, ppid |-> 0, pid |-> 0]

CouldNotScan(dir, e) ==
    [kind |-> "scan", dir |-> dir, cause |-> e, ppid |-> 0, pid |-> 0]

MissingParent(ppid, pid) ==
    [kind |-> "missingparent", dir |-> 0, cause |-> NoScanErr,
     ppid |-> ppid, pid |-> pid]

(***************************************************************************)
(* The records of the modelled procfs                                      *)
(***************************************************************************)

\* The 22 fields after the name of a well-formed record whose parent id is
\* ppid: state S, tpgid -1 (no controlling terminal), and field k holding k.
GoodFields(ppid) ==
    [k \in 1..22 |->
        IF k = 1 THEN <<"S">>
        ELSE IF k = 2 THEN FormatInt(ppid)
        ELSE IF k = 6 THEN FormatInt(0 - 1)
        ELSE FormatInt(k)]

Shapes ==
    {"good", "extra", "short", "alpha2", "alpha22", "suffix3", "suffix22",
     "negflags"}

\* good: the 22 fields; extra: followed by more fields, as the kernel writes
\* them; short: the last field missing; alpha<k>: field k is a letter;
\* suffix<k>: a letter follows the digits of field k; negflags: the unsigned
\* flags field holds -1.
Fields(shape, ppid) ==
    LET g == GoodFields(ppid)
    IN  CASE shape = "good"     -> g
          [] shape = "extra"    -> g \o <<FormatInt(23), FormatInt(24)>>
          [] shape = "short"    -> SubSeq(g, 1, 21)
          [] shape = "alpha2"   -> [g EXCEPT ![2] = <<"x">>]
          [] shape = "alpha22"  -> [g EXCEPT ![22] = <<"x">>]
          [] shape = "suffix3"  -> [g EXCEPT ![3] = @ \o <<"x">>]
          [] shape = "suffix22" -> [g EXCEPT ![22] = @ \o <<"x">>]
          [] shape = "negflags" -> [g EXCEPT ![7] = FormatInt(0 - 1)]

\* Process names: plain, with a space, wrapped in parentheses, with a closing
\* and an opening parenthesis inside, and empty.
Names ==
    {<<"a">>, <<"a", " ", "b">>, <<"(", "a", ")">>,
     <<"a", ")", " ", "(", "b">>, <<>>}

\* The outcomes of a read of environ, cwd or cmdline.
AuxOutcomes == {"ok", "EACCES", "ENOENT"}

\* One /proc/<pid>: whether stat can be read; the name, the shape of the
\* fields and the parent id that make its text; the outcomes of the reads of
\* environ, cwd and cmdline.
Entry(stat, name, shape, ppid, environ, cwd, cmdline) ==
    [stat |-> stat, name |-> name, shape |-> shape, ppid |-> ppid,
     environ |-> environ, cwd |-> cwd, cmdline |-> cmdline]

\* A process that Glob listed and that is gone when scan reads it.
Vanished == Entry("ENOENT", <<"a">>, "good", 0, "ENOENT", "ENOENT", "ENOENT")

\* Plain processes, each with a parent id of 0..MaxPid + 1 (no process has
\* the id MaxPid + 1), and vanished ones.
LinkEntries ==
    {Vanished} \cup
    {Entry("ok", <<"a">>, "good", ppid, "ok", "ok", "ok") : ppid \in 0..(MaxPid + 1)}

\* One process /proc/<d> with any name, any shape of record and any outcome
\* of the three auxiliary reads; its parent id is 0 or its own id.
WideEntries(d) ==
    {Entry("ok", name, shape, ppid, e, c, a) :
        name \in Names, shape \in Shapes, ppid \in {0, d},
        e \in AuxOutcomes, c \in AuxOutcomes, a \in AuxOutcomes}

(***************************************************************************)
(* procfs: what the reads of scan return                                   *)
(***************************************************************************)

\* The text of /proc/<dir>/stat: "<pid> (<comm>) <fields>\n".
StatText(dir) ==
    FormatInt(dir) \o <<" ", "(">> \o procfs[dir].name \o <<")", " ">>
        \o JoinFields(Fields(procfs[dir].shape, procfs[dir].ppid)) \o <<"\n">>

\* ioutil.ReadFile / os.ReadFile of <dir>/<file>: the error ("" for none)
\* and the bytes.
ReadFile(dir, file) ==
    IF file = "stat"
    THEN IF procfs[dir].stat = "ok"
         THEN [err |-> "", data |-> StatText(dir)]
         ELSE [err |-> procfs[dir].stat, data |-> <<>>]
    ELSE IF procfs[dir][file] = "ok"
         THEN [err |-> "", data |-> <<file>>]
         ELSE [err |-> procfs[dir][file], data |-> <<>>]

\* os.Stat(<dir>/cwd): the error and fi.Name(), the base name of the path.
OsStat(dir) ==
    IF procfs[dir].cwd = "ok"
    THEN [err |-> "", name |-> <<"c", "w", "d">>]
    ELSE [err |-> procfs[dir].cwd, name |-> <<>>]

\* errors.Is(err, os.ErrPermission)
IsPermission(e) == e = "EACCES"

\* base64.StdEncoding.EncodeToString: empty for no bytes, and otherwise a
\* text that is not the bytes and that determines them.
EncodeToString(bytes) == IF bytes = <<>> THEN <<>> ELSE <<"base64">> \o bytes

(***************************************************************************)
(* scan                                                                    *)
(***************************************************************************)

\* stat with the operands Sscanf stored: the first Len(vals) of StatFields.
StoreFields(stat, vals) ==
    [f \in DOMAIN stat |->
        IF \E k \in 1..Len(vals) : StatFields[k] = f
        THEN vals[CHOOSE k \in 1..Len(vals) : StatFields[k] = f]
        ELSE stat[f]]

\* statUnreadable with the read error reported instead of swallowed.
statUnreadableStrict(dir, e) ==
    [proc |-> Process, err |-> ScanErr("read", <<dir, "stat">>, e)]

\* What scan returns when the read of <dir>/stat fails: the process vanished
\* since Glob, and that is the zero Process with no error.
statUnreadable(dir, e) == [proc |-> Process, err |-> NoScanErr]

\* scan(dir): the Process and the error it returns.
scan(dir) ==
    LET stat == <<dir, "stat">>
        rd   == ReadFile(dir, "stat")
        info0 == FieldsFunc(rd.data)
        info == [k \in 1..3 |-> TrimSpace(info0[k])]
        pid  == Atoi(info[1])
        sc   == Sscanf(info[3])
        p1   == [Process EXCEPT
                    !.Stat = StoreFields(
                        [ProcessStat EXCEPT !.PID = pid.val, !.Comm = info[2]],
                        sc.vals)]
        env  == ReadFile(dir, "environ")
        p2   == IF env.err = ""
                THEN [p1 EXCEPT !.Stat.Environ = EncodeToString(env.data)]
                ELSE p1
        fi   == OsStat(dir)
        p3   == IF fi.err = "" THEN [p2 EXCEPT !.Stat.Cwd = fi.name] ELSE p2
        args == ReadFile(dir, "cmdline")
        p4   == [p3 EXCEPT !.Stat.Cmdline = EncodeToString(args.data),
                           !.Name = p3.Stat.Comm]
    IN  IF rd.err # ""
        THEN statUnreadable(dir, rd.err)
        ELSE IF Len(info0) # 3
        THEN [proc |-> Process, err |-> ScanErr("format", stat, "")]
        ELSE IF ~pid.ok
        THEN [proc |-> Process, err |-> ScanErr("pid", stat, "")]
        ELSE IF ~sc.ok
        THEN [proc |-> p1, err |-> ScanErr("parse", stat, "")]
        ELSE IF env.err # "" /\ ~IsPermission(env.err)
        THEN [proc |-> p1, err |-> ScanErr("environ", <<dir, "environ">>, env.err)]
        ELSE IF fi.err # "" /\ ~IsPermission(fi.err)
        THEN [proc |-> p2, err |-> ScanErr("cwd", <<dir, "cwd">>, fi.err)]
        ELSE IF args.err # ""
        THEN [proc |-> p3, err |-> ScanErr("cmdline", <<dir, "cmdline">>, args.err)]
        ELSE [proc |-> p4, err |-> NoScanErr]

(***************************************************************************)
(* sort.Ints                                                               *)
(***************************************************************************)

\* sort.Ints left out.
SortIntsNoop(s) == s

RECURSIVE Insert(_, _)
Insert(x, s) ==
    IF s = <<>> THEN <<x>>
    ELSE IF x <= Head(s) THEN <<x>> \o s
    ELSE <<Head(s)>> \o Insert(x, Tail(s))

RECURSIVE SortInts(_)
SortInts(s) == IF s = <<>> THEN <<>> ELSE Insert(Head(s), SortInts(Tail(s)))

(***************************************************************************)
(* Init                                                                    *)
(***************************************************************************)

NoScan == [dir |-> 0, proc |-> Process, err |-> NoScanErr]

NoFirst == [tree |-> NilTree, err |-> NoErr]

Fresh ==
    /\ scans = <<>>
    /\ pc = "start"
    /\ run = 1
    /\ files = {}
    /\ procs = <<>>
    /\ todo = {}
    /\ last = NoScan
    /\ tree = NilTree
    /\ err = NoErr
    /\ first = NoFirst
    /\ stack = <<>>

InitLink == procfs \in [Dirs -> LinkEntries] /\ Fresh

InitWide == (\E e \in WideEntries(MaxPid) : procfs = (MaxPid :> e)) /\ Fresh

Init == InitLink \/ InitWide

(***************************************************************************)
(* New                                                                     *)
(***************************************************************************)

\* procs[k] = v
MapSet(m, k, v) == (k :> v) @@ m

\* New returns: return t, e.  files and the loop variables go out of scope.
Returns(t, e) ==
    /\ tree' = t
    /\ err' = e
    /\ pc' = "returned"
    /\ files' = {}
    /\ scans' = <<>>
    /\ todo' = {}

\* files, err := filepath.Glob("/proc/[0-9]*") without error; procs := make(...)
\* The entries come in an order that is not part of the model: the scan loop
\* takes them from files in any order.  procfs does not change while New
\* runs, so what scan(dir) returns is settled here for every entry.
Glob ==
    /\ pc = "start"
    /\ files' = DOMAIN procfs
    /\ scans' = [dir \in DOMAIN procfs |-> scan(dir)]
    /\ procs' = <<>>
    /\ err' = NoErr
    /\ pc' = "scan"
    /\ UNCHANGED <<procfs, run, todo, last, tree, first, stack>>

\* The branch of New for an error of Glob.
GlobFails ==
    /\ pc = "start"
    /\ Returns(NilTree, GlobErr)
    /\ UNCHANGED <<procfs, run, procs, last, first, stack>>

\* The body of "for _, dir := range files", r being what scan(dir) returned:
\* what the iteration leaves.
scanBody(m, dir, r) ==
    IF r.err # NoScanErr
    THEN [ret |-> TRUE, tree |-> NilTree, err |-> CouldNotScan(dir, r.err),
          procs |-> m]
    ELSE IF r.proc.Stat.PID = 0
    THEN \* process vanished since Glob.
         [ret |-> FALSE, tree |-> NilTree, err |-> NoErr, procs |-> m]
    ELSE [ret |-> FALSE, tree |-> NilTree, err |-> NoErr,
          procs |-> MapSet(m, r.proc.Stat.PID, r.proc)]

\* One iteration of the scan loop: proc, err := scan(dir) and the body.
ScanStep ==
    /\ pc = "scan"
    /\ \E dir \in files :
        LET r   == scans[dir]
            out == scanBody(procs, dir, r)
        IN  /\ last' = [dir |-> dir, proc |-> r.proc, err |-> r.err]
            /\ procs' = out.procs
            /\ IF out.ret
               THEN Returns(out.tree, out.err)
               ELSE /\ files' = files \ {dir}
                    /\ UNCHANGED <<scans, pc, todo, tree, err>>
    /\ UNCHANGED <<procfs, run, first, stack>>

\* The scan loop is over; "for pid, proc := range procs" begins.
LinkStart ==
    /\ pc = "scan"
    /\ files = {}
    /\ pc' = "link"
    /\ todo' = DOMAIN procs
    /\ last' = NoScan
    /\ UNCHANGED <<procfs, scans, run, files, procs, tree, err, first, stack>>

\* linkBody with a missing parent skipped silently.
linkBodySkip(m, pid) ==
    LET proc == m[pid]
    IN  IF proc.Stat.Ppid = 0 \/ proc.Stat.Ppid \notin DOMAIN m
        THEN [ret |-> FALSE, tree |-> NilTree, err |-> NoErr, procs |-> m]
        ELSE LET parent == [m[proc.Stat.Ppid] EXCEPT !.Children = Append(@, pid)]
             IN  [ret |-> FALSE, tree |-> NilTree, err |-> NoErr,
                  procs |-> MapSet(m, parent.Stat.PID, parent)]

\* linkBody that returns what it has built so far along with the error.
linkBodyPartial(m, pid) ==
    LET proc == m[pid]
    IN  IF proc.Stat.Ppid = 0
        THEN [ret |-> FALSE, tree |-> NilTree, err |-> NoErr, procs |-> m]
        ELSE IF proc.Stat.Ppid \notin DOMAIN m
        THEN [ret |-> TRUE, tree |-> Tree(m),
              err |-> MissingParent(proc.Stat.Ppid, pid), procs |-> m]
        ELSE LET parent == [m[proc.Stat.Ppid] EXCEPT !.Children = Append(@, pid)]
             IN  [ret |-> FALSE, tree |-> NilTree, err |-> NoErr,
                  procs |-> MapSet(m, parent.Stat.PID, parent)]

\* linkBody without procs[parent.Stat.PID] = parent: the append is lost with
\* the copy of the parent.
linkBodyNoStore(m, pid) ==
    LET proc == m[pid]
    IN  IF proc.Stat.Ppid = 0
        THEN [ret |-> FALSE, tree |-> NilTree, err |-> NoErr, procs |-> m]
        ELSE IF proc.Stat.Ppid \notin DOMAIN m
        THEN [ret |-> TRUE, tree |-> NilTree,
              err |-> MissingParent(proc.Stat.Ppid, pid), procs |-> m]
        ELSE [ret |-> FALSE, tree |-> NilTree, err |-> NoErr, procs |-> m]

\* The body of the link loop for the key pid.
linkBody(m, pid) ==
    LET proc == m[pid]
    IN  IF proc.Stat.Ppid = 0
        THEN [ret |-> FALSE, tree |-> NilTree, err |-> NoErr, procs |-> m]
        ELSE IF proc.Stat.Ppid \notin DOMAIN m
        THEN [ret |-> TRUE, tree |-> NilTree,
              err |-> MissingParent(proc.Stat.Ppid, pid), procs |-> m]
        ELSE LET parent == [m[proc.Stat.Ppid] EXCEPT !.Children = Append(@, pid)]
             IN  [ret |-> FALSE, tree |-> NilTree, err |-> NoErr,
                  procs |-> MapSet(m, parent.Stat.PID, parent)]

\* One iteration of the link loop; a map is ranged over in any order.
LinkStep ==
    /\ pc = "link"
    /\ \E pid \in todo :
        LET out == linkBody(procs, pid)
        IN  /\ procs' = out.procs
            /\ IF out.ret
               THEN Returns(out.tree, out.err)
               ELSE todo' = todo \ {pid} /\ UNCHANGED <<scans, pc, files, tree, err>>
    /\ UNCHANGED <<procfs, run, last, first, stack>>

\* The link loop is over; the sort loop begins.
SortStart ==
    /\ pc = "link"
    /\ todo = {}
    /\ pc' = "sort"
    /\ todo' = DOMAIN procs
    /\ UNCHANGED <<procfs, scans, run, files, procs, last, tree, err, first, stack>>

\* The body of the sort loop for the key pid.
sortBody(m, pid) ==
    LET proc == m[pid]
        sorted == IF Len(proc.Children) > 0
                  THEN [proc EXCEPT !.Children = SortInts(@)]
                  ELSE proc
    IN  MapSet(m, pid, sorted)

SortStep ==
    /\ pc = "sort"
    /\ \E pid \in todo :
        /\ procs' = sortBody(procs, pid)
        /\ todo' = todo \ {pid}
    /\ UNCHANGED <<procfs, scans, pc, run, files, last, tree, err, first, stack>>

\* tree := &Tree{Procs: procs}; return tree, err
Return ==
    /\ pc = "sort"
    /\ todo = {}
    /\ Returns(Tree(procs), err)
    /\ UNCHANGED <<procfs, run, procs, last, first, stack>>

\* A caller calls New a second time, on the same procfs.
NewAgain ==
    /\ pc = "returned"
    /\ run = 1
    /\ first' = [tree |-> tree, err |-> err]
    /\ run' = 2
    /\ pc' = "start"
    /\ files' = {}
    /\ procs' = <<>>
    /\ todo' = {}
    /\ last' = NoScan
    /\ tree' = NilTree
    /\ err' = NoErr
    /\ UNCHANGED <<procfs, scans, stack>>

(***************************************************************************)
(* Command procs-tree: main and display                                    *)
(***************************************************************************)

\* if err != nil { log.Fatalf(...) }
Fatal ==
    /\ pc = "returned"
    /\ err # NoErr
    /\ pc' = "exit"
    /\ UNCHANGED <<procfs, scans, run, files, procs, todo, last, tree, err, first, stack>>

\* tree.Procs[pid].Children; the zero Process for a pid that is no key.
ChildrenOf(t, pid) ==
    IF pid \in DOMAIN t.Procs THEN t.Procs[pid].Children ELSE <<>>

\* display(*pid, tree, 1)
DisplayStart ==
    /\ pc = "returned"
    /\ err = NoErr
    /\ \E pid \in Dirs : stack' = <<[pid |-> pid, i |-> 1]>>
    /\ pc' = "display"
    /\ UNCHANGED <<procfs, scans, run, files, procs, todo, last, tree, err, first>>

\* The loop of display meets the next child: display(cid, tree, indent+1).
DisplayCall ==
    /\ pc = "display"
    /\ Len(stack) < MaxDepth
    /\ LET top == stack[Len(stack)]
           children == ChildrenOf(tree, top.pid)
       IN  /\ top.i <= Len(children)
           /\ stack' = Append([stack EXCEPT ![Len(stack)].i = @ + 1],
                               [pid |-> children[top.i], i |-> 1])
    /\ UNCHANGED <<procfs, scans, pc, run, files, procs, todo, last, tree, err, first>>

\* The loop of display is over: the call returns.
DisplayReturn ==
    /\ pc = "display"
    /\ LET top == stack[Len(stack)]
       IN  top.i > Len(ChildrenOf(tree, top.pid))
    /\ stack' = SubSeq(stack, 1, Len(stack) - 1)
    /\ pc' = IF Len(stack) = 1 THEN "exit" ELSE "display"
    /\ UNCHANGED <<procfs, scans, run, files, procs, todo, last, tree, err, first>>

Next ==
    \/ Glob
    \/ GlobFails
    \/ ScanStep
    \/ LinkStart
    \/ LinkStep
    \/ SortStart
    \/ SortStep
    \/ Return
    \/ NewAgain
    \/ Fatal
    \/ DisplayStart
    \/ DisplayCall
    \/ DisplayReturn

Spec == Init /\ [][Next]_vars

(***************************************************************************)
(* Properties                                                              *)
(***************************************************************************)

\* The listed processes whose stat can be read, and those that are gone.
Readable == {d \in DOMAIN procfs : procfs[d].stat = "ok"}

Gone == {d \in DOMAIN procfs : procfs[d].stat # "ok"}

\* New has returned (and main may have gone on to display the tree).
AfterNew == pc \in {"returned", "display", "exit"}

\* The keys of m whose parent id is p.
KeysWithParent(m, p) == {q \in DOMAIN m : m[q].Stat.Ppid = p}

\* The keys of m whose parent id is neither 0 nor a key.
Orphans(m) ==
    {q \in DOMAIN m : m[q].Stat.Ppid # 0 /\ m[q].Stat.Ppid \notin DOMAIN m}

IsAscending(c) == \A i \in 1..(Len(c) - 1) : c[i] < c[i + 1]

Elems(c) == {c[i] : i \in 1..Len(c)}

\* C1: in every Tree that New returns, the Children of each key p are, in
\* strictly ascending order (so without duplicates), exactly the keys whose
\* parent id is p.
C1_ChildrenExact ==
    ~tree.nil =>
        \A p \in DOMAIN tree.Procs :
            /\ IsAscending(tree.Procs[p].Children)
            /\ Elems(tree.Procs[p].Children) = KeysWithParent(tree.Procs, p)

\* The example of the spec: ids {1,2,3} with parents {0,1,1}.
C1_Witness ==
    /\ pc = "returned"
    /\ ~tree.nil
    /\ DOMAIN tree.Procs = {1, 2, 3}
    /\ tree.Procs[1].Stat.Ppid = 0
    /\ tree.Procs[2].Stat.Ppid = 1
    /\ tree.Procs[3].Stat.Ppid = 1
    /\ tree.Procs[1].Children = <<2, 3>>
    /\ tree.Procs[2].Children = <<>>
    /\ tree.Procs[3].Children = <<>>

\* The primary record of dir is "<pid> (<name>) " followed by exactly the 22
\* well-formed fields, and the three auxiliary reads succeed.
WellFormed(dir) ==
    /\ procfs[dir].stat = "ok"
    /\ procfs[dir].shape = "good"
    /\ procfs[dir].environ = "ok"
    /\ procfs[dir].cwd = "ok"
    /\ procfs[dir].cmdline = "ok"

\* C2: for a well-formed primary record, whatever its name holds, scan
\* returns no error and a Process whose name is the text between the first
\* "(" and the last ")", whose id is the number before the first "(" and
\* whose other fields are the ones after the last ")", by position.
C2_NameBetweenOuterParens ==
    (last.dir # 0 /\ WellFormed(last.dir)) =>
        /\ last.err = NoScanErr
        /\ last.proc.Name = procfs[last.dir].name
        /\ last.proc.Stat.Comm = procfs[last.dir].name
        /\ last.proc.Stat.PID = last.dir
        /\ last.proc.Stat.Ppid = procfs[last.dir].ppid
        /\ last.proc.Stat.RSS = 22

\* C3: when the scan loop has run to its end and some scanned process has a
\* parent id that is neither 0 nor a scanned id, New returns a nil Tree and
\* an error that names such a process and its parent id.
C3_MissingParentReported ==
    (pc = "returned" /\ err.kind \notin {"glob", "scan"} /\ Orphans(procs) # {}) =>
        /\ tree.nil
        /\ err.kind = "missingparent"
        /\ err.pid \in Orphans(procs)
        /\ err.ppid = procs[err.pid].Stat.Ppid

\* The parent of process 2 is process 1, which vanished before its scan.
C3_Witness ==
    /\ pc = "returned"
    /\ 1 \in Gone
    /\ tree.nil
    /\ err.kind = "missingparent"
    /\ err.ppid = 1
    /\ err.pid = 2

\* C4: New never fails because a file of a process that exited after the
\* enumeration is gone: no error of New is caused by a read that reports
\* that the file does not exist.
C4_ExitNeverFails ==
    AfterNew => ~(err.kind = "scan" /\ err.cause.os = "ENOENT")

\* C5 as stated: when a listed process is gone at its scan and no scan (and
\* not the enumeration) fails, New succeeds and the map holds exactly the
\* readable processes.
C5_VanishedNeverFails ==
    (pc = "returned" /\ Gone # {} /\ err.kind \notin {"glob", "scan"}) =>
        /\ ~tree.nil
        /\ err = NoErr
        /\ DOMAIN tree.Procs = Readable

\* C5 as amended: a process that is gone at its scan is left out of the map
\* and no scan error is ever about it; when no scan (and not the enumeration)
\* fails, New succeeds with exactly the readable processes unless one of them
\* names a parent that is not among them, and then New fails with the
\* missing-parent error.
C5_VanishedExcluded ==
    pc = "returned" =>
        /\ err.kind = "scan" => err.dir \in Readable
        /\ err.kind \notin {"glob", "scan"} =>
            /\ DOMAIN procs = Readable
            /\ Orphans(procs) = {} =>
                ~tree.nil /\ err = NoErr /\ DOMAIN tree.Procs = Readable
            /\ Orphans(procs) # {} =>
                tree.nil /\ err.kind = "missingparent"

\* Process 1 vanished; 2 and 3 are returned, 3 linked to 2.
C5_Witness ==
    /\ pc = "returned"
    /\ Gone = {1}
    /\ ~tree.nil
    /\ err = NoErr
    /\ DOMAIN tree.Procs = {2, 3}
    /\ tree.Procs[2].Children = <<3>>

\* A decimal integer with an optional sign.
IsNumeral(tok) == Atoi(tok).ok

\* The primary record of dir has fewer than 22 fields after the name, or one
\* of the 21 numeric fields is not a decimal integer.
Malformed(dir) ==
    LET f == Fields(procfs[dir].shape, procfs[dir].ppid)
    IN  /\ procfs[dir].stat = "ok"
        /\ \/ Len(f) < 22
           \/ \E k \in 2..22 : k <= Len(f) /\ ~IsNumeral(f[k])

\* C6: a readable record that is malformed makes scan return an error about
\* the record that names the path of stat, and New fail; no Tree holds a
\* Process made from such a record.
C6_MalformedRejected ==
    /\ (last.dir # 0 /\ Malformed(last.dir)) =>
            /\ last.err.what \in {"format", "pid", "parse"}
            /\ last.err.path = <<last.dir, "stat">>
            /\ pc = "returned" /\ tree.nil /\ err.kind = "scan"
    /\ ~tree.nil => \A d \in DOMAIN procfs : Malformed(d) => d \notin DOMAIN tree.Procs

\* What the read of an auxiliary file has to leave in its field: nothing when
\* permission was denied, something when it was read.
AuxFieldAsRead(outcome, field) ==
    /\ outcome = "EACCES" => field = <<>>
    /\ outcome = "ok" => field # <<>>

\* C7: when the primary record has parsed and each auxiliary read either
\* succeeds or is denied permission, scan returns no error, and leaves empty
\* exactly the fields whose read was denied.
C7_PermissionTolerated ==
    (/\ last.dir # 0
     /\ procfs[last.dir].stat = "ok"
     /\ last.err.what \notin {"format", "pid", "parse"}
     /\ procfs[last.dir].environ \in {"ok", "EACCES"}
     /\ procfs[last.dir].cwd \in {"ok", "EACCES"}
     /\ procfs[last.dir].cmdline \in {"ok", "EACCES"}) =>
        /\ last.err = NoScanErr
        /\ AuxFieldAsRead(procfs[last.dir].environ, last.proc.Stat.Environ)
        /\ AuxFieldAsRead(procfs[last.dir].cwd, last.proc.Stat.Cwd)
        /\ AuxFieldAsRead(procfs[last.dir].cmdline, last.proc.Stat.Cmdline)

\* C8: New returns a Tree and no error, or no Tree and an error; until it
\* returns there is no Tree.
C8_AllOrNothing ==
    /\ AfterNew => (tree.nil <=> err # NoErr)
    /\ ~AfterNew => tree.nil

\* New fails on a missing parent after it has linked a child: what it had
\* built is not returned.
C8_Witness ==
    /\ pc = "returned"
    /\ tree.nil
    /\ err.kind = "missingparent"
    /\ \E p \in DOMAIN procs : procs[p].Children # <<>>

\* C9: two calls of New on the same procfs (the enumeration working in both)
\* return the same: equal Trees, with equal keys, fields and Children, or no
\* Tree both times.
C9_SameTreeTwice ==
    (run = 2 /\ pc = "returned" /\ err.kind # "glob" /\ first.err.kind # "glob") =>
        tree = first.tree

\* The second call returns the Tree of the first, with a parent of two.
C9_Witness ==
    /\ run = 2
    /\ pc = "returned"
    /\ ~tree.nil
    /\ ~first.tree.nil
    /\ \E p \in DOMAIN tree.Procs : Len(tree.Procs[p].Children) >= 2

\* The ids found by following Children lists from the ids of S, in at most n
\* steps.
RECURSIVE Descendants(_, _, _)
Descendants(m, S, n) ==
    LET kids == UNION {Elems(m[p].Children) : p \in S \cap DOMAIN m}
    IN  IF n = 0 THEN {} ELSE kids \cup Descendants(m, kids, n - 1)

\* C10: in every Tree that New returns no process is reachable from itself
\* through Children lists, whatever parent ids the records declare, so that
\* the frames of display hold distinct ids and its recursion is never deeper
\* than the number of keys (plus the frame of the call from main).
C10_DisplayTerminates ==
    /\ ~tree.nil =>
            \A p \in DOMAIN tree.Procs :
                p \notin Descendants(tree.Procs, {p}, Cardinality(DOMAIN tree.Procs))
    /\ pc = "display" => Len(stack) <= Cardinality(DOMAIN tree.Procs) + 1

====
